---- MODULE Spec2Model ----
(***************************************************************************)
(* fastmcp_sqltools.server: the lazily created asyncpg pool shared by the  *)
(* tool coroutines (get_pool), the four tools, and the lexical validation  *)
(* that execute_safe_query runs before it touches the pool.                *)
(*                                                                         *)
(* A statement is a sequence of one-character strings.  The coroutines run *)
(* on one asyncio event loop: a step of the model is the code between two  *)
(* awaits of one coroutine.                                                *)
(***************************************************************************)
EXTENDS Integers, Sequences, FiniteSets, TLC

\* ------------------------------------------------------------- bounds
\* tool invocations that can be in flight at once
NumCalls == 2
\* asyncpg.create_pool invocations in one behaviour
MaxCreates == 2
\* connections one pool hands out before acquire() has to wait
PoolSize == 1
\* fragments a statement is assembled from in GateSpec
MaxFrags == 3

\* ------------------------------------------------------------- text
LowerLetters ==
  <<"a","b","c","d","e","f","g","h","i","j","k","l","m",
    "n","o","p","q","r","s","t","u","v","w","x","y","z">>

UpperLetters ==
  <<"A","B","C","D","E","F","G","H","I","J","K","L","M",
    "N","O","P","Q","R","S","T","U","V","W","X","Y","Z">>

\* the characters str.strip() removes
Whitespace == {" ", "\t", "\n", "\r", "\f"}

\* the upper-case letter of each lower-case letter
ToUpper ==
  [ch \in {LowerLetters[i] : i \in 1..26} |->
     UpperLetters[CHOOSE i \in 1..26 : LowerLetters[i] = ch]]

UpperChar(ch) == IF ch \in DOMAIN ToUpper THEN ToUpper[ch] ELSE ch

\* str.upper()
Upper(s) == [i \in 1..Len(s) |-> UpperChar(s[i])]

\* Strip dropping the trailing whitespace only
StripTrailing(s) ==
  LET keep == {i \in 1..Len(s) : s[i] \notin Whitespace}
  IN IF keep = {} THEN <<>>
     ELSE SubSeq(s, 1, CHOOSE i \in keep : \A j \in keep : j <= i)

\* str.strip(): drop the whitespace before the first and after the last
\* character that is not whitespace
Strip(s) ==
  LET keep == {i \in 1..Len(s) : s[i] \notin Whitespace}
  IN IF keep = {} THEN <<>>
     ELSE LET lo == CHOOSE i \in keep : \A j \in keep : i <= j
              hi == CHOOSE i \in keep : \A j \in keep : j <= i
          IN [i \in 1..(hi - lo + 1) |-> s[lo + i - 1]]

\* s.startswith(p)
StartsWith(s, p) ==
  /\ Len(p) <= Len(s)
  /\ \A i \in 1..Len(p) : s[i] = p[i]

\* Contains, matching whole words only: the character after the match is not
\* a letter, a digit or an underscore
WordChars ==
  {LowerLetters[i] : i \in 1..26} \cup {UpperLetters[i] : i \in 1..26}
    \cup {"0", "1", "2", "3", "4", "5", "6", "7", "8", "9", "_"}

ContainsWord(s, k) ==
  \E off \in 0..(Len(s) - Len(k)) :
    /\ \A i \in 1..Len(k) : s[off + i] = k[i]
    /\ off + Len(k) < Len(s) => s[off + Len(k) + 1] \notin WordChars

\* k in s
Contains(s, k) ==
  \E off \in 0..(Len(s) - Len(k)) : \A i \in 1..Len(k) : s[off + i] = k[i]

\* ------------------------------------------------------------- validation
SELECT == <<"S", "E", "L", "E", "C", "T">>

disallowed_keywords ==
  << <<"I", "N", "S", "E", "R", "T">>,
     <<"U", "P", "D", "A", "T", "E">>,
     <<"D", "E", "L", "E", "T", "E">>,
     <<"D", "R", "O", "P">>,
     <<"C", "R", "E", "A", "T", "E">>,
     <<"A", "L", "T", "E", "R">>,
     <<"T", "R", "U", "N", "C", "A", "T", "E">> >>

NoText == <<>>
Allowed == [ok |-> TRUE, error |-> "none", keyword |-> NoText]
OnlySelect == [ok |-> FALSE, error |-> "only_select", keyword |-> NoText]
Disallowed(k) == [ok |-> FALSE, error |-> "disallowed_keyword", keyword |-> k]

\* ScanKeywords, raising for the keyword that comes first in the text
ScanKeywordsByPosition(text, i) ==
  LET found == {j \in i..Len(disallowed_keywords) :
                  Contains(text, disallowed_keywords[j])}
      at(j) == CHOOSE off \in 0..Len(text) :
                 /\ StartsWith(SubSeq(text, off + 1, Len(text)), disallowed_keywords[j])
                 /\ \A o \in 0..(off - 1) :
                      ~StartsWith(SubSeq(text, o + 1, Len(text)), disallowed_keywords[j])
  IN IF found = {} THEN Allowed
     ELSE Disallowed(disallowed_keywords[
            CHOOSE j \in found : \A m \in found : at(j) <= at(m)])

\* the for loop over disallowed_keywords, from the i-th keyword on: the
\* first keyword found in the text raises
RECURSIVE ScanKeywords(_, _)
ScanKeywords(text, i) ==
  IF i > Len(disallowed_keywords) THEN Allowed
  ELSE IF Contains(text, disallowed_keywords[i])
       THEN Disallowed(disallowed_keywords[i])
       ELSE ScanKeywords(text, i + 1)

\* SafetyGate with its two checks in the other order
SafetyGateScanFirst(query) ==
  LET query_stripped == Upper(Strip(query))
      scan == ScanKeywords(query_stripped, 1)
  IN IF ~scan.ok THEN scan
     ELSE IF ~StartsWith(query_stripped, SELECT) THEN OnlySelect
     ELSE Allowed

\* the validation of execute_safe_query
SafetyGate(query) ==
  LET query_stripped == Upper(Strip(query))
  IN IF ~StartsWith(query_stripped, SELECT) THEN OnlySelect
     ELSE ScanKeywords(query_stripped, 1)

\* ------------------------------------------------------------- inputs
Calls == 1..NumCalls

Tools == {"list_tables", "get_table_schema", "execute_query", "execute_safe_query"}
Ops == Tools \cup {"get_pool"}

\* params: None, an empty list, a list of two values
NoParams == [given |-> FALSE, values |-> <<>>]
EmptyParams == [given |-> TRUE, values |-> <<>>]
TwoParams == [given |-> TRUE, values |-> <<"b", "a">>]
ParamsInputs == {NoParams, EmptyParams, TwoParams}

\* the statements and params the callers of execute_query and
\* execute_safe_query pass in Spec
QSpacedLower == <<" ", "\n", "s", "e", "l", "e", "c", "t", " ", "$", "2">>
QInsert == <<"i", "n", "s", "e", "r", "t", " ", "x">>
QSelectDrop ==
  <<"S", "E", "L", "E", "C", "T", " ", "1", ";", "D", "R", "O", "P", " ", "t">>
QueryArgs == {<<QSpacedLower, NoParams>>, <<QSelectDrop, EmptyParams>>,
              <<QInsert, TwoParams>>}
SafeArgs == ({QSpacedLower} \X ParamsInputs)
              \cup ({QInsert, QSelectDrop} \X {NoParams, TwoParams})

\* the truth value of params in "if params:"
Truthy(ps) == ps.given /\ Len(ps.values) > 0

\* the introspection statements of list_tables and get_table_schema
TablesQuery == <<"S", "E", "L", "E", "C", "T", " ", "t", "a", "b", "l", "e", "s">>
ColumnsQuery == <<"S", "E", "L", "E", "C", "T", " ", "c", "o", "l", "u", "m", "n", "s">>
Public == "public"
Users == "users"

\* ------------------------------------------------------------- state
NoPool == 0
NoConn == <<0, 0>>
NoUrl == ""
Url == "postgresql://"

VARIABLES
  connection_pool,  \* _connection_pool: NoPool or the pool's identity
  database_url,     \* os.environ["DATABASE_URL"], NoUrl when unset
  leased,           \* connections out of their pools: <<pool, slot>>
  createCalls,      \* asyncpg.create_pool invocations so far
  created,          \* pools asyncpg.create_pool has returned so far
  returned,         \* the pools get_pool has returned so far
  calls,            \* the coroutine of each tool invocation
  stmt,             \* GateSpec: the statement being assembled
  nfrags            \* GateSpec: the fragments it is made of

progVars == <<connection_pool, database_url, leased, createCalls, created,
              returned, calls>>
gateVars == <<stmt, nfrags>>
vars == <<connection_pool, database_url, leased, createCalls, created,
          returned, calls, stmt, nfrags>>

NoOutcome == [status |-> "none", error |-> "none", keyword |-> NoText,
              pool |-> NoPool, rows |-> 0]
Raised(e, k) == [status |-> "error", error |-> e, keyword |-> k,
                 pool |-> NoPool, rows |-> 0]
ReturnedPool(p) == [status |-> "ok", error |-> "none", keyword |-> NoText,
                    pool |-> p, rows |-> 0]
ReturnedRows(n) == [status |-> "ok", error |-> "none", keyword |-> NoText,
                    pool |-> NoPool, rows |-> n]

\* a coroutine that has not been called
Idle == [op |-> "none", pc |-> "idle", query |-> NoText, params |-> NoParams,
         db_pool |-> NoPool, conn |-> NoConn, pending |-> NoOutcome,
         outcome |-> NoOutcome, trace |-> <<>>, fetched |-> <<>>]

Init ==
  /\ connection_pool = NoPool
  /\ database_url \in {NoUrl, Url}
  /\ leased = {}
  /\ createCalls = 0
  /\ created = 0
  /\ returned = {}
  /\ calls = [c \in Calls |-> Idle]
  /\ stmt = NoText
  /\ nfrags = 0

\* ------------------------------------------------------------- get_pool
\* event ev is added to the history of the coroutine
Note(loc, ev) == [loc EXCEPT !.trace = Append(@, ev)]

\* the coroutine returns or raises: its frame is gone
Finish(loc, out) ==
  [loc EXCEPT !.pc = "done", !.outcome = out, !.db_pool = NoPool]

\* get_pool has returned pool p: its caller runs on to its own next await,
\* the db_pool.acquire() of a tool
AfterGetPool(loc, p) ==
  IF loc.op = "get_pool" THEN Finish(loc, ReturnedPool(p))
  ELSE [loc EXCEPT !.db_pool = p, !.pc = "acquiring",
                   !.trace = Append(@, "acquire")]

\* get_pool from its first line to its return, its raise, or its await of
\* asyncpg.create_pool
\* get_pool reading the setting before it looks at the pool reference
GetPoolAlwaysReadsEnv(c, loc) ==
  LET entered == [loc EXCEPT !.trace = <<"get_pool", "getenv">>]
  IN IF connection_pool # NoPool
     THEN /\ calls' = [calls EXCEPT ![c] = AfterGetPool(entered, connection_pool)]
          /\ returned' = returned \cup {connection_pool}
          /\ UNCHANGED <<connection_pool, database_url, leased, createCalls,
                         created, stmt, nfrags>>
     ELSE IF database_url = NoUrl
     THEN /\ calls' = [calls EXCEPT ![c] = Finish(entered, Raised("config", NoText))]
          /\ UNCHANGED <<connection_pool, database_url, leased, createCalls,
                         created, returned, stmt, nfrags>>
     ELSE /\ createCalls < MaxCreates
          /\ createCalls' = createCalls + 1
          /\ calls' = [calls EXCEPT ![c] =
                 [entered EXCEPT !.pc = "creating",
                                 !.trace = Append(@, "create_pool")]]
          /\ UNCHANGED <<connection_pool, database_url, leased, created,
                         returned, stmt, nfrags>>

\* get_pool without the test of the setting: an unset setting is handed to
\* create_pool
GetPoolNoConfigCheck(c, loc) ==
  LET entered == [loc EXCEPT !.trace = Append(@, "get_pool")]
  IN IF connection_pool # NoPool
     THEN /\ calls' = [calls EXCEPT ![c] = AfterGetPool(entered, connection_pool)]
          /\ returned' = returned \cup {connection_pool}
          /\ UNCHANGED <<connection_pool, database_url, leased, createCalls,
                         created, stmt, nfrags>>
     ELSE /\ createCalls < MaxCreates
          /\ createCalls' = createCalls + 1
          /\ calls' = [calls EXCEPT ![c] =
                 [entered EXCEPT !.pc = "creating",
                                 !.trace = @ \o <<"getenv", "create_pool">>]]
          /\ UNCHANGED <<connection_pool, database_url, leased, created,
                         returned, stmt, nfrags>>

GetPool(c, loc) ==
  LET entered == [loc EXCEPT !.trace = Append(@, "get_pool")]
  IN IF connection_pool # NoPool
     THEN /\ calls' = [calls EXCEPT ![c] = AfterGetPool(entered, connection_pool)]
          /\ returned' = returned \cup {connection_pool}
          /\ UNCHANGED <<connection_pool, database_url, leased, createCalls,
                         created, stmt, nfrags>>
     ELSE IF database_url = NoUrl
     THEN /\ calls' = [calls EXCEPT ![c] =
                 Finish([entered EXCEPT !.trace = Append(@, "getenv")],
                        Raised("config", NoText))]
          /\ UNCHANGED <<connection_pool, database_url, leased, createCalls,
                         created, returned, stmt, nfrags>>
     ELSE /\ createCalls < MaxCreates
          /\ createCalls' = createCalls + 1
          /\ calls' = [calls EXCEPT ![c] =
                 [entered EXCEPT !.pc = "creating",
                                 !.trace = @ \o <<"getenv", "create_pool">>]]
          /\ UNCHANGED <<connection_pool, database_url, leased, created,
                         returned, stmt, nfrags>>

\* the arguments a tool is called with; list_tables and get_table_schema
\* build their statement themselves
ToolArgs(o) ==
  IF o = "execute_query" THEN QueryArgs
  ELSE IF o = "execute_safe_query" THEN SafeArgs
  ELSE IF o = "list_tables" THEN {<<TablesQuery, NoParams>>}
  ELSE IF o = "get_table_schema" THEN {<<ColumnsQuery, NoParams>>}
  ELSE {<<NoText, NoParams>>}

\* Invoke without the validation of execute_safe_query
InvokeUnchecked(c, o, q, ps) ==
  /\ calls[c].pc = "idle"
  /\ GetPool(c, [Idle EXCEPT !.op = o, !.query = q, !.params = ps])

\* Invoke validating the statement only when no params come with it
InvokeTrustingParams(c, o, q, ps) ==
  /\ calls[c].pc = "idle"
  /\ LET loc == [Idle EXCEPT !.op = o, !.query = q, !.params = ps]
         verdict == IF o = "execute_safe_query" /\ ~Truthy(ps)
                    THEN SafetyGate(q) ELSE Allowed
     IN IF ~verdict.ok
        THEN /\ calls' = [calls EXCEPT ![c] =
                    Finish(loc, Raised(verdict.error, verdict.keyword))]
             /\ UNCHANGED <<connection_pool, database_url, leased, createCalls,
                            created, returned, stmt, nfrags>>
        ELSE GetPool(c, loc)

\* a coroutine is called and runs to its first await: the validation of
\* execute_safe_query, then get_pool
Invoke(c, o, q, ps) ==
  /\ calls[c].pc = "idle"
  /\ LET loc == [Idle EXCEPT !.op = o, !.query = q, !.params = ps]
         verdict == IF o = "execute_safe_query" THEN SafetyGate(q) ELSE Allowed
     IN IF ~verdict.ok
        THEN /\ calls' = [calls EXCEPT ![c] =
                    Finish(loc, Raised(verdict.error, verdict.keyword))]
             /\ UNCHANGED <<connection_pool, database_url, leased, createCalls,
                            created, returned, stmt, nfrags>>
        ELSE GetPool(c, loc)

\* asyncpg.create_pool returns a new pool: it is stored and returned
CreateOk(c) ==
  /\ calls[c].pc = "creating"
  /\ created' = created + 1
  /\ connection_pool' = created + 1
  /\ returned' = returned \cup {connection_pool'}
  /\ calls' = [calls EXCEPT ![c] = AfterGetPool(calls[c], connection_pool')]
  /\ UNCHANGED <<database_url, leased, createCalls, stmt, nfrags>>

\* asyncpg.create_pool raises: logged and raised again, nothing stored
\* a failed create_pool tried once more inside the same call
CreateRaiseRetry(c) ==
  /\ calls[c].pc = "creating"
  /\ calls' = [calls EXCEPT ![c] =
        IF \E i \in 1..Len(calls[c].trace) : calls[c].trace[i] = "raised"
        THEN Finish(Note(calls[c], "raised"), Raised("connection", NoText))
        ELSE [calls[c] EXCEPT !.trace = @ \o <<"raised", "create_pool">>]]
  /\ UNCHANGED <<connection_pool, database_url, leased, createCalls, created,
                 returned, stmt, nfrags>>

CreateRaise(c) ==
  /\ calls[c].pc = "creating"
  /\ calls' = [calls EXCEPT ![c] =
        Finish(Note(calls[c], "raised"), Raised("connection", NoText))]
  /\ UNCHANGED <<connection_pool, database_url, leased, createCalls, created,
                 returned, stmt, nfrags>>

\* ------------------------------------------------------------- the tools
\* what the tool passes to conn.fetch
\* the driver call made with the parameter list as one argument whenever a
\* list is given, empty or not: conn.fetch(query, params)
FetchCallListAsArgument(loc) ==
  IF loc.op = "list_tables" THEN [stmt |-> loc.query, args |-> <<Public>>]
  ELSE IF loc.op = "get_table_schema"
       THEN [stmt |-> loc.query, args |-> <<Public, Users>>]
  ELSE IF loc.params.given
       THEN [stmt |-> loc.query, args |-> <<loc.params.values>>]
  ELSE [stmt |-> loc.query, args |-> <<>>]

\* the driver call with the parameters left out: conn.fetch(query) on both
\* branches
FetchCallBareStatement(loc) ==
  IF loc.op = "list_tables" THEN [stmt |-> loc.query, args |-> <<Public>>]
  ELSE IF loc.op = "get_table_schema"
       THEN [stmt |-> loc.query, args |-> <<Public, Users>>]
  ELSE [stmt |-> loc.query, args |-> <<>>]

\* the driver call with the validated copy of the statement in place of the
\* caller's text
FetchCallNormalized(loc) ==
  IF loc.op = "list_tables" THEN [stmt |-> loc.query, args |-> <<Public>>]
  ELSE IF loc.op = "get_table_schema"
       THEN [stmt |-> loc.query, args |-> <<Public, Users>>]
  ELSE IF Truthy(loc.params)
       THEN [stmt |-> Upper(Strip(loc.query)), args |-> loc.params.values]
  ELSE [stmt |-> Upper(Strip(loc.query)), args |-> <<>>]

FetchCall(loc) ==
  IF loc.op = "list_tables" THEN [stmt |-> loc.query, args |-> <<Public>>]
  ELSE IF loc.op = "get_table_schema"
       THEN [stmt |-> loc.query, args |-> <<Public, Users>>]
  ELSE IF Truthy(loc.params) THEN [stmt |-> loc.query, args |-> loc.params.values]
  ELSE [stmt |-> loc.query, args |-> <<>>]

CallFetch(loc) ==
  [loc EXCEPT !.pc = "fetching", !.trace = Append(@, "fetch"),
              !.fetched = Append(@, FetchCall(loc))]

\* leaving the body of "async with db_pool.acquire()": the connection goes back
LeaveAcquire(loc, out) ==
  [loc EXCEPT !.pc = "releasing", !.pending = out, !.trace = Append(@, "release")]

\* the connection handed back before the transaction on it has ended
LeaveBodyReleaseFirst(loc, out) ==
  IF loc.op = "execute_safe_query"
  THEN [loc EXCEPT !.pc = "ending", !.pending = out,
          !.trace = @ \o <<"release",
                           IF out.status = "ok" THEN "commit" ELSE "rollback">>]
  ELSE LeaveAcquire(loc, out)

\* leaving the body of "async with conn.transaction(readonly=True)", where
\* there is one: commit after a return, rollback after an exception
LeaveBody(loc, out) ==
  IF loc.op = "execute_safe_query"
  THEN [loc EXCEPT !.pc = "ending", !.pending = out,
          !.trace = Append(@, IF out.status = "ok" THEN "commit" ELSE "rollback")]
  ELSE LeaveAcquire(loc, out)

FreeSlots(p) == {k \in 1..PoolSize : <<p, k>> \notin leased}

\* db_pool.acquire() hands out a connection
\* the first connection of the pool taken whether it is free or not
AcquireOkSharedConnection(c) ==
  /\ calls[c].pc = "acquiring"
  /\ LET got == [calls[c] EXCEPT !.conn = <<calls[c].db_pool, 1>>]
     IN /\ leased' = leased \cup {got.conn}
        /\ calls' = [calls EXCEPT ![c] =
              IF got.op = "execute_safe_query"
              THEN [got EXCEPT !.pc = "beginning",
                               !.trace = Append(@, "begin_readonly")]
              ELSE CallFetch(got)]
  /\ UNCHANGED <<connection_pool, database_url, createCalls, created,
                 returned, stmt, nfrags>>

\* the transaction of execute_safe_query opened without readonly=True
AcquireOkReadWrite(c) ==
  /\ calls[c].pc = "acquiring"
  /\ FreeSlots(calls[c].db_pool) # {}
  /\ LET k == CHOOSE k \in FreeSlots(calls[c].db_pool) :
                 \A j \in FreeSlots(calls[c].db_pool) : k <= j
         got == [calls[c] EXCEPT !.conn = <<calls[c].db_pool, k>>]
     IN /\ leased' = leased \cup {got.conn}
        /\ calls' = [calls EXCEPT ![c] =
              IF got.op = "execute_safe_query"
              THEN [got EXCEPT !.pc = "beginning", !.trace = Append(@, "begin")]
              ELSE CallFetch(got)]
  /\ UNCHANGED <<connection_pool, database_url, createCalls, created,
                 returned, stmt, nfrags>>

AcquireOk(c) ==
  /\ calls[c].pc = "acquiring"
  /\ FreeSlots(calls[c].db_pool) # {}
  /\ LET k == CHOOSE k \in FreeSlots(calls[c].db_pool) :
                 \A j \in FreeSlots(calls[c].db_pool) : k <= j
         got == [calls[c] EXCEPT !.conn = <<calls[c].db_pool, k>>]
     IN /\ leased' = leased \cup {got.conn}
        /\ calls' = [calls EXCEPT ![c] =
              IF got.op = "execute_safe_query"
              THEN [got EXCEPT !.pc = "beginning",
                               !.trace = Append(@, "begin_readonly")]
              ELSE CallFetch(got)]
  /\ UNCHANGED <<connection_pool, database_url, createCalls, created,
                 returned, stmt, nfrags>>

\* db_pool.acquire() raises
AcquireRaise(c) ==
  /\ calls[c].pc = "acquiring"
  /\ calls' = [calls EXCEPT ![c] =
        Finish(Note(calls[c], "raised"), Raised("connection", NoText))]
  /\ UNCHANGED <<connection_pool, database_url, leased, createCalls, created,
                 returned, stmt, nfrags>>

\* the read-only transaction is open
\* the tool asking the pool for another connection while it holds one
BeginOkSecondAcquire(c) ==
  /\ calls[c].pc = "beginning"
  /\ calls' = [calls EXCEPT ![c] = [calls[c] EXCEPT !.pc = "acquiring"]]
  /\ UNCHANGED <<connection_pool, database_url, leased, createCalls, created,
                 returned, stmt, nfrags>>

BeginOk(c) ==
  /\ calls[c].pc = "beginning"
  /\ calls' = [calls EXCEPT ![c] = CallFetch(calls[c])]
  /\ UNCHANGED <<connection_pool, database_url, leased, createCalls, created,
                 returned, stmt, nfrags>>

\* opening the transaction raises
BeginRaise(c) ==
  /\ calls[c].pc = "beginning"
  /\ calls' = [calls EXCEPT ![c] =
        LeaveAcquire(Note(calls[c], "raised"), Raised("engine", NoText))]
  /\ UNCHANGED <<connection_pool, database_url, leased, createCalls, created,
                 returned, stmt, nfrags>>

\* conn.fetch returns n rows
FetchOk(c, n) ==
  /\ calls[c].pc = "fetching"
  /\ calls' = [calls EXCEPT ![c] =
        LeaveBody(Note(calls[c], IF n = 0 THEN "no_rows" ELSE "rows"),
                  ReturnedRows(n))]
  /\ UNCHANGED <<connection_pool, database_url, leased, createCalls, created,
                 returned, stmt, nfrags>>

\* FetchRaise leaving the tool at once, the connection still out
FetchRaiseLeak(c) ==
  /\ calls[c].pc = "fetching"
  /\ calls' = [calls EXCEPT ![c] =
        Finish(Note(calls[c], "raised"), Raised("engine", NoText))]
  /\ UNCHANGED <<connection_pool, database_url, leased, createCalls, created,
                 returned, stmt, nfrags>>

\* conn.fetch raises
\* the engine error caught and turned into an empty result
FetchRaiseSwallowed(c) ==
  /\ calls[c].pc = "fetching"
  /\ calls' = [calls EXCEPT ![c] =
        LeaveBody(Note(calls[c], "raised"), ReturnedRows(0))]
  /\ UNCHANGED <<connection_pool, database_url, leased, createCalls, created,
                 returned, stmt, nfrags>>

FetchRaise(c) ==
  /\ calls[c].pc = "fetching"
  /\ calls' = [calls EXCEPT ![c] =
        LeaveBody(Note(calls[c], "raised"), Raised("engine", NoText))]
  /\ UNCHANGED <<connection_pool, database_url, leased, createCalls, created,
                 returned, stmt, nfrags>>

\* the commit or rollback is done
EndTransaction(c) ==
  /\ calls[c].pc = "ending"
  /\ calls' = [calls EXCEPT ![c] = LeaveAcquire(calls[c], calls[c].pending)]
  /\ UNCHANGED <<connection_pool, database_url, leased, createCalls, created,
                 returned, stmt, nfrags>>

\* the commit raises
EndTransactionRaise(c) ==
  /\ calls[c].pc = "ending"
  /\ calls[c].pending.status = "ok"
  /\ calls' = [calls EXCEPT ![c] =
        LeaveAcquire(Note(calls[c], "raised"), Raised("engine", NoText))]
  /\ UNCHANGED <<connection_pool, database_url, leased, createCalls, created,
                 returned, stmt, nfrags>>

\* the connection is back in its pool; the tool returns or raises
Release(c) ==
  /\ calls[c].pc = "releasing"
  /\ leased' = leased \ {calls[c].conn}
  /\ calls' = [calls EXCEPT ![c] =
        Finish([calls[c] EXCEPT !.conn = NoConn, !.pending = NoOutcome],
               calls[c].pending)]
  /\ UNCHANGED <<connection_pool, database_url, createCalls, created,
                 returned, stmt, nfrags>>

\* the task is cancelled while it awaits: CancelledError is raised at the await
Cancel(c) ==
  /\ calls[c].pc \in {"creating", "acquiring", "beginning", "fetching"}
  /\ calls' = [calls EXCEPT ![c] =
        IF calls[c].pc \in {"creating", "acquiring"}
        THEN Finish(Note(calls[c], "cancelled"), Raised("cancelled", NoText))
        ELSE IF calls[c].pc = "beginning"
        THEN LeaveAcquire(Note(calls[c], "cancelled"), Raised("cancelled", NoText))
        ELSE LeaveBody(Note(calls[c], "cancelled"), Raised("cancelled", NoText))]
  /\ UNCHANGED <<connection_pool, database_url, leased, createCalls, created,
                 returned, stmt, nfrags>>

\* the caller has its result; the next invocation may start
Return(c) ==
  /\ calls[c].pc = "done"
  /\ calls' = [calls EXCEPT ![c] = Idle]
  /\ UNCHANGED <<connection_pool, database_url, leased, createCalls, created,
                 returned, stmt, nfrags>>

\* the environment of the process changes
SetEnv(u) ==
  /\ database_url # u
  /\ database_url' = u
  /\ UNCHANGED <<connection_pool, leased, createCalls, created,
                 returned, calls, stmt, nfrags>>

Next ==
  \/ \E c \in Calls, o \in Ops : \E a \in ToolArgs(o) : Invoke(c, o, a[1], a[2])
  \/ \E c \in Calls : CreateOk(c)
  \/ \E c \in Calls : CreateRaise(c)
  \/ \E c \in Calls : AcquireOk(c)
  \/ \E c \in Calls : AcquireRaise(c)
  \/ \E c \in Calls : BeginOk(c)
  \/ \E c \in Calls : BeginRaise(c)
  \/ \E c \in Calls, n \in 0..1 : FetchOk(c, n)
  \/ \E c \in Calls : FetchRaise(c)
  \/ \E c \in Calls : EndTransaction(c)
  \/ \E c \in Calls : EndTransactionRaise(c)
  \/ \E c \in Calls : Release(c)
  \/ \E c \in Calls : Cancel(c)
  \/ \E c \in Calls : Return(c)
  \/ \E u \in {NoUrl, Url} : SetEnv(u)

Spec == Init /\ [][Next]_vars

\* The event loop resumes every coroutine whose await has an answer, and the
\* driver answers every request: the transaction begins or fails, the
\* statement returns or raises, the transaction ends, the connection goes
\* back.  The pool serves its waiters in turn, so that a call waiting in
\* acquire() is not passed over for ever by calls that come and go.
Fairness ==
  \A c \in Calls :
    /\ SF_vars(AcquireOk(c))
    /\ WF_vars(BeginOk(c) \/ BeginRaise(c))
    /\ WF_vars((\E n \in 0..1 : FetchOk(c, n)) \/ FetchRaise(c))
    /\ WF_vars(EndTransaction(c) \/ EndTransactionRaise(c))
    /\ WF_vars(Release(c))

LiveSpec == Init /\ [][Next]_vars /\ Fairness

\* ------------------------------------------------------------- GateSpec
\* execute_safe_query called once with each statement made of at most
\* MaxFrags of these fragments
Fragments ==
  { <<" ">>,
    <<"\n">>,
    <<"s", "e", "l", "e", "c", "t">>,
    <<"S", "E", "L", "E", "C", "T">>,
    <<"e", "d">>,
    <<"d", "_", "a", "t">>,
    <<"1">>,
    <<"i", "n", "s", "e", "r", "t">>,
    <<"u", "P", "d", "A", "t", "E">>,
    <<"D", "e", "L", "e", "T", "e">>,
    <<"D", "R", "O", "P">>,
    <<"c", "r", "e", "a", "t", "e">>,
    <<"A", "l", "t", "e", "r">>,
    <<"t", "r", "u", "n", "c", "a", "t", "e">> }

GateAppend(f) ==
  /\ calls[1].pc = "idle"
  /\ nfrags < MaxFrags
  /\ stmt' = stmt \o f
  /\ nfrags' = nfrags + 1
  /\ UNCHANGED progVars

GateInvoke(ps) == Invoke(1, "execute_safe_query", stmt, ps)

GateNext ==
  \/ \E f \in Fragments : GateAppend(f)
  \/ \E ps \in ParamsInputs : GateInvoke(ps)

GateSpec == Init /\ [][GateNext]_vars

\* ------------------------------------------------------------- properties
Creating == {c \in Calls : calls[c].pc = "creating"}
InFlight == {c \in Calls : calls[c].pc \notin {"idle", "done"}}

\* the pool a call got from get_pool
PoolGot(loc) == IF loc.op = "get_pool" THEN loc.outcome.pool ELSE loc.db_pool

ValidationErrors == {"only_select", "disallowed_keyword"}

\* C1: when every asyncpg.create_pool invocation made so far has returned a
\* pool, there was at most one invocation, and get_pool has handed the same
\* pool to every caller
C1_OneCreation ==
  created = createCalls => createCalls <= 1 /\ Cardinality(returned) <= 1

\* C2: at most one caller is suspended inside asyncpg.create_pool
C2_OneInitInFlight == Cardinality(Creating) <= 1

\* C3: once _connection_pool holds a pool it keeps that pool, and every
\* get_pool that returns from then on returns it
C3_PoolNeverReplaced ==
  [][connection_pool # NoPool =>
       /\ connection_pool' = connection_pool
       /\ returned' \ returned \subseteq {connection_pool}]_vars

\* C4: a get_pool call that starts after get_pool has returned pool P
\* returns P and does not invoke asyncpg.create_pool
C4_ReuseAfterReturn ==
  [][\A c \in Calls :
       ( /\ returned # {}
         /\ calls[c].pc = "idle"
         /\ calls'[c].trace # <<>>
         /\ calls'[c].trace[1] = "get_pool" )
       => /\ createCalls' = createCalls
          /\ \A P \in returned : PoolGot(calls'[c]) = P]_vars

\* C5: an execute_safe_query call whose statement the validation rejects
\* ends at once with the validation's error: it has not called get_pool, has
\* leased no connection, opened no transaction and sent nothing to the
\* driver, and the pool reference, the created pools and the leased
\* connections are what they were
C5_RejectTouchesNothing ==
  [][\A c \in Calls :
       ( /\ calls[c].pc = "idle"
         /\ calls'[c].pc # "idle"
         /\ calls'[c].op = "execute_safe_query"
         /\ ~SafetyGate(calls'[c].query).ok )
       => /\ calls'[c].pc = "done"
          /\ calls'[c].outcome.status = "error"
          /\ calls'[c].outcome.error \in ValidationErrors
          /\ calls'[c].trace = <<>>
          /\ calls'[c].fetched = <<>>
          /\ calls'[c].conn = NoConn
          /\ connection_pool' = connection_pool
          /\ leased' = leased
          /\ createCalls' = createCalls
          /\ created' = created]_vars

\* a rejected call, made while the pool exists and another call holds a
\* connection
C5_Witness ==
  \E c \in Calls :
    /\ calls[c].op = "execute_safe_query"
    /\ calls[c].pc = "done"
    /\ calls[c].outcome.error = "disallowed_keyword"
    /\ connection_pool # NoPool
    /\ leased # {}

\* C6: a leased connection belongs to a tool call that is in flight, and a
\* call that is not in flight holds none: when no call is in flight no
\* connection is leased
C6_ConnectionsReleased ==
  /\ leased = {calls[c].conn : c \in {d \in InFlight : calls[d].conn # NoConn}}
  /\ \A c \in Calls \ InFlight : calls[c].conn = NoConn
  /\ InFlight = {} => leased = {}

\* two tools have leased a connection and ended, one on an engine error and
\* one cancelled, and nothing is leased
C6_Witness ==
  /\ leased = {}
  /\ \E c, d \in Calls :
       /\ calls[c].pc = "done" /\ calls[d].pc = "done"
       /\ calls[c].op = "execute_query" /\ calls[d].op = "execute_safe_query"
       /\ calls[c].outcome.error = "engine"
       /\ calls[d].outcome.error = "cancelled"
       /\ \E i \in 1..Len(calls[c].trace) : calls[c].trace[i] = "fetch"
       /\ \E i \in 1..Len(calls[d].trace) : calls[d].trace[i] = "fetch"

\* ----- the validation, stated on the statement as the caller wrote it
\* the keywords in the order the specification lists them
KeywordOrder ==
  << <<"I", "N", "S", "E", "R", "T">>, <<"U", "P", "D", "A", "T", "E">>,
     <<"D", "E", "L", "E", "T", "E">>, <<"D", "R", "O", "P">>,
     <<"C", "R", "E", "A", "T", "E">>, <<"A", "L", "T", "E", "R">>,
     <<"T", "R", "U", "N", "C", "A", "T", "E">> >>

\* word w, in any letter case, stands at offset off of text q
WordAt(q, off, w) ==
  /\ off + Len(w) <= Len(q)
  /\ \A j \in 1..Len(w) : UpperChar(q[off + j]) = w[j]

\* after its leading whitespace the statement begins with the letters SELECT
BeginsWithSelect(q) ==
  \E n \in 0..Len(q) :
    /\ \A i \in 1..n : q[i] \in Whitespace
    /\ WordAt(q, n, <<"S", "E", "L", "E", "C", "T">>)

\* the first token of the statement: the letters, digits and underscores
\* that follow its leading whitespace, uppercased
FirstToken(q) ==
  LET n == CHOOSE n \in 0..Len(q) :
             /\ \A i \in 1..n : q[i] \in Whitespace
             /\ n < Len(q) => q[n + 1] \notin Whitespace
      m == CHOOSE m \in n..Len(q) :
             /\ \A i \in (n + 1)..m : q[i] \in WordChars
             /\ m < Len(q) => q[m + 1] \notin WordChars
  IN [i \in 1..(m - n) |-> UpperChar(q[n + i])]

\* the keywords of the list that occur in the statement, by their place in
\* the list
KeywordsIn(q) ==
  {i \in 1..Len(KeywordOrder) : \E off \in 0..Len(q) : WordAt(q, off, KeywordOrder[i])}

\* the one execute_safe_query call of GateSpec has been made
Validated == calls[1].pc # "idle" /\ calls[1].op = "execute_safe_query"

\* C7: execute_safe_query raises the only-SELECT error exactly when the first
\* token of the statement is not SELECT
C7_FirstTokenSelect ==
  Validated =>
    (calls[1].outcome.error = "only_select"
       <=> FirstToken(calls[1].query) # <<"S", "E", "L", "E", "C", "T">>)

\* C8: a statement that begins with SELECT is rejected exactly when one of
\* the keywords occurs in it, anywhere and in any letter case; otherwise
\* the call goes on to get_pool
C8_KeywordSubstring ==
  (Validated /\ BeginsWithSelect(calls[1].query)) =>
    /\ calls[1].outcome.error = "disallowed_keyword"
         <=> KeywordsIn(calls[1].query) # {}
    /\ KeywordsIn(calls[1].query) = {}
         => /\ calls[1].outcome.error \notin ValidationErrors
            /\ calls[1].trace # <<>> /\ calls[1].trace[1] = "get_pool"

\* UPDATED_AT inside a longer word is rejected for UPDATE
C8_Witness ==
  /\ Validated
  /\ BeginsWithSelect(calls[1].query)
  /\ \E off \in 0..Len(calls[1].query) :
       WordAt(calls[1].query, off,
              <<"U", "P", "D", "A", "T", "E", "D", "_", "A", "T">>)
  /\ calls[1].outcome.error = "disallowed_keyword"
  /\ calls[1].outcome.keyword = <<"U", "P", "D", "A", "T", "E">>

\* C9: the error of a statement that begins with SELECT and holds keywords
\* names the one of them that is first in the list
C9_FirstInListWins ==
  (Validated /\ BeginsWithSelect(calls[1].query)
     /\ KeywordsIn(calls[1].query) # {}) =>
    /\ calls[1].outcome.error = "disallowed_keyword"
    /\ calls[1].outcome.keyword =
         KeywordOrder[CHOOSE i \in KeywordsIn(calls[1].query) :
                        \A j \in KeywordsIn(calls[1].query) : i <= j]

\* DROP stands before INSERT in the statement and the error names INSERT
C9_Witness ==
  /\ Validated
  /\ BeginsWithSelect(calls[1].query)
  /\ \E a, b \in 0..Len(calls[1].query) :
       /\ a < b
       /\ WordAt(calls[1].query, a, <<"D", "R", "O", "P">>)
       /\ WordAt(calls[1].query, b, <<"I", "N", "S", "E", "R", "T">>)
  /\ calls[1].outcome.keyword = <<"I", "N", "S", "E", "R", "T">>

\* C10: a statement that does not begin with SELECT is rejected with the
\* only-SELECT error, whatever keywords it holds
C10_SelectCheckFirst ==
  (Validated /\ ~BeginsWithSelect(calls[1].query)) =>
    /\ calls[1].pc = "done"
    /\ calls[1].outcome.status = "error"
    /\ calls[1].outcome.error = "only_select"

\* an INSERT statement rejected with the only-SELECT error
C10_Witness ==
  /\ Validated
  /\ ~BeginsWithSelect(calls[1].query)
  /\ 1 \in KeywordsIn(calls[1].query)
  /\ calls[1].outcome.error = "only_select"

\* ----- the verdict of the validation
AllowedVerdict == <<"allowed", NoText>>

\* the verdict an execute_safe_query call that has started got
VerdictOf(loc) ==
  IF loc.outcome.error \in ValidationErrors
  THEN <<loc.outcome.error, loc.outcome.keyword>>
  ELSE AllowedVerdict

\* the verdict of the validation on text v
GateVerdict(v) ==
  LET g == SafetyGate(v)
  IN IF g.ok THEN AllowedVerdict ELSE <<g.error, g.keyword>>

ToLower ==
  [ch \in {UpperLetters[i] : i \in 1..26} |->
     LowerLetters[CHOOSE i \in 1..26 : UpperLetters[i] = ch]]

LowerChar(ch) == IF ch \in DOMAIN ToLower THEN ToLower[ch] ELSE ch

SwapChar(ch) == IF UpperChar(ch) = ch THEN LowerChar(ch) ELSE UpperChar(ch)

RECURSIVE DropLeading(_)
DropLeading(q) ==
  IF q # <<>> /\ Head(q) \in Whitespace THEN DropLeading(Tail(q)) ELSE q

RECURSIVE DropTrailing(_)
DropTrailing(q) ==
  IF q # <<>> /\ q[Len(q)] \in Whitespace
  THEN DropTrailing(SubSeq(q, 1, Len(q) - 1)) ELSE q

\* q with the letter case of some of its characters changed: all to upper
\* case, all to lower case, every character at an odd place swapped, every
\* character at an even place swapped
CaseVariants(q) ==
  {[i \in 1..Len(q) |-> UpperChar(q[i])],
   [i \in 1..Len(q) |-> LowerChar(q[i])],
   [i \in 1..Len(q) |-> IF i % 2 = 1 THEN SwapChar(q[i]) ELSE q[i]],
   [i \in 1..Len(q) |-> IF i % 2 = 0 THEN SwapChar(q[i]) ELSE q[i]]}

\* q with leading or trailing whitespace added or removed
SpaceVariants(q) ==
  {<<"\n", "\t">> \o q, q \o <<" ">>, <<" ">> \o q \o <<"\n">>,
   DropLeading(q), DropLeading(DropTrailing(q))}

\* C11: the verdict of a statement is the verdict of the statement with the
\* letter case of any of its characters changed, and of the statement with
\* leading or trailing whitespace added or removed
C11_CaseAndSpaceInsensitive ==
  Validated =>
    \A v \in CaseVariants(calls[1].query) \cup SpaceVariants(calls[1].query) :
      GateVerdict(v) = VerdictOf(calls[1])

\* a statement with leading whitespace, a lower-case select and a
\* mixed-case keyword is rejected for that keyword
C11_Witness ==
  /\ Validated
  /\ calls[1].query # <<>>
  /\ calls[1].query[1] \in Whitespace
  /\ DropLeading(calls[1].query) # calls[1].query
  /\ \E off \in 0..Len(calls[1].query) :
       /\ WordAt(calls[1].query, off, <<"D", "E", "L", "E", "T", "E">>)
       /\ calls[1].query[off + 2] = "e"
  /\ VerdictOf(calls[1]) =
       <<"disallowed_keyword", <<"D", "E", "L", "E", "T", "E">>>>

\* the verdict the specification gives text q, from the text alone
ExpectedVerdict(q) ==
  IF ~BeginsWithSelect(q) THEN <<"only_select", NoText>>
  ELSE IF KeywordsIn(q) = {} THEN AllowedVerdict
  ELSE <<"disallowed_keyword",
         KeywordOrder[CHOOSE i \in KeywordsIn(q) : \A j \in KeywordsIn(q) : i <= j]>>

SafeCalls == {c \in Calls : calls[c].op = "execute_safe_query" /\ calls[c].pc # "idle"}

\* C12: the verdict of an execute_safe_query call is fixed by its statement:
\* two calls with the same statement have the same verdict, whatever their
\* params, the state of the pool and the other calls
C12_VerdictOfTextAlone ==
  /\ \A c \in SafeCalls : VerdictOf(calls[c]) = ExpectedVerdict(calls[c].query)
  /\ \A c, d \in SafeCalls :
       calls[c].query = calls[d].query => VerdictOf(calls[c]) = VerdictOf(calls[d])

\* two calls with the same rejected statement and different params, one
\* made before the pool existed and one after
C12_Witness ==
  \E c, d \in SafeCalls :
    /\ calls[c].query = QSelectDrop /\ calls[d].query = QSelectDrop
    /\ calls[c].params = NoParams /\ calls[d].params = TwoParams
    /\ VerdictOf(calls[c]) = <<"disallowed_keyword", <<"D", "R", "O", "P">>>>
    /\ VerdictOf(calls[d]) = VerdictOf(calls[c])
    /\ connection_pool # NoPool

\* ---------------------------------------------------------------------
\* Configuration errors
\* ---------------------------------------------------------------------

\* the event ev is in the history h
Has(h, ev) == \E i \in 1..Len(h) : h[i] = ev

\* call c enters get_pool in this step
EntersGetPool(c) ==
  /\ calls[c].pc = "idle"
  /\ calls'[c].pc # "idle"
  /\ calls'[c].trace # <<>>
  /\ calls'[c].trace[1] = "get_pool"

\* call c leaves this step with the configuration error and nothing created
FailsOnConfig(c) ==
  /\ calls'[c].pc = "done"
  /\ calls'[c].outcome = Raised("config", NoText)
  /\ ~Has(calls'[c].trace, "create_pool")
  /\ createCalls' = createCalls
  /\ connection_pool' = connection_pool

\* C13 as stated: every get_pool call made while no connection string is
\* configured fails with the configuration error and attempts no creation.
C13_Original ==
  [][\A c \in Calls :
       (EntersGetPool(c) /\ database_url = NoUrl) => FailsOnConfig(c)]_vars

\* C13 amended: a get_pool call made while the pool reference is unset and no
\* connection string is configured fails with the configuration error, every
\* time, and attempts no creation; a call made while the reference is set
\* returns the stored pool without reading the setting, configured or not.
C13_ConfigErrorWhileUnset ==
  [][\A c \in Calls :
       (EntersGetPool(c) /\ database_url = NoUrl) =>
          IF connection_pool = NoPool
          THEN FailsOnConfig(c)
          ELSE /\ ~Has(calls'[c].trace, "getenv")
               /\ calls'[c].outcome.error # "config"
               /\ connection_pool \in returned'
               /\ createCalls' = createCalls]_vars

\* both calls have failed on the missing setting, one after the other, and
\* nothing was created
C13_Witness ==
  /\ \A c \in Calls : /\ calls[c].pc = "done"
                       /\ calls[c].outcome = Raised("config", NoText)
                       /\ calls[c].trace[1] = "get_pool"
  /\ createCalls = 0
  /\ connection_pool = NoPool

\* call c is inside the initialisation of the pool: about to enter get_pool
\* or waiting for create_pool
Initializing(c) == calls[c].pc \in {"idle", "creating"}

\* the initialisation call c was in fails in this step
InitFails(c) ==
  /\ Initializing(c)
  /\ calls'[c].pc = "done"
  /\ calls'[c].outcome.error \in {"config", "connection"}
  /\ calls'[c].trace[1] = "get_pool"

\* C14: a pool initialisation that fails, on the missing setting or in
\* create_pool, leaves the shared pool reference unset, so that the next
\* get_pool call initialises afresh.
C14_FailureLeavesUnset ==
  [][\A c \in Calls : InitFails(c) => connection_pool' = NoPool]_vars

\* ---------------------------------------------------------------------
\* What reaches the driver
\* ---------------------------------------------------------------------

QueryTools == {"execute_query", "execute_safe_query"}

\* C15: execute_query and execute_safe_query hand the driver the statement
\* with the caller's parameters p1..pn as positional arguments in the same
\* order when a non-empty sequence is given, and the bare statement with no
\* arguments when no parameters are given.
C15_ParamsPassThrough ==
  \A c \in Calls : calls[c].op \in QueryTools =>
    \A i \in 1..Len(calls[c].fetched) :
      LET sent == calls[c].fetched[i]
          ps == calls[c].params
      IN /\ sent.stmt = calls[c].query
         /\ (ps.given /\ ps.values # <<>>) =>
               /\ Len(sent.args) = Len(ps.values)
               /\ \A k \in 1..Len(ps.values) : sent.args[k] = ps.values[k]
         /\ ~ps.given => sent.args = <<>>

\* an execute_query call has sent its two parameters and an execute_safe_query
\* call, given none, has sent the bare statement
C15_Witness ==
  \E c, d \in Calls :
    /\ calls[c].op = "execute_query"
    /\ calls[c].params = TwoParams
    /\ Len(calls[c].fetched) = 1
    /\ calls[c].fetched[1].args = <<"b", "a">>
    /\ calls[d].op = "execute_safe_query"
    /\ calls[d].params = NoParams
    /\ Len(calls[d].fetched) = 1
    /\ calls[d].fetched[1].args = <<>>

\* C16: the text execute_safe_query sends to the driver is the caller's
\* statement, character for character: the trimmed upper-case copy serves
\* validation only, and case, whitespace and placeholders are untouched.
C16_OriginalTextExecuted ==
  \A c \in Calls : calls[c].op = "execute_safe_query" =>
    \A i \in 1..Len(calls[c].fetched) :
      /\ Len(calls[c].fetched[i].stmt) = Len(calls[c].query)
      /\ \A k \in 1..Len(calls[c].query) :
            calls[c].fetched[i].stmt[k] = calls[c].query[k]

\* a statement with leading whitespace, lower-case letters and a placeholder
\* has been sent as it was given, and its normalised copy differs from it
C16_Witness ==
  \E c \in Calls :
    /\ calls[c].op = "execute_safe_query"
    /\ calls[c].query = QSpacedLower
    /\ Upper(Strip(calls[c].query)) # calls[c].query
    /\ Len(calls[c].fetched) = 1
    /\ calls[c].fetched[1].stmt = QSpacedLower

\* ---------------------------------------------------------------------
\* Transactions
\* ---------------------------------------------------------------------

TransactionEvents == {"begin", "begin_readonly", "commit", "rollback"}

\* the positions of event ev in history h
Positions(h, ev) == {i \in 1..Len(h) : h[i] = ev}

\* position i of history h lies inside an open read-only transaction: one was
\* begun before i, the begin did not fail, and it has not ended before i
InReadOnlyTransaction(h, i) ==
  \E b \in Positions(h, "begin_readonly") :
    /\ b < i
    /\ \A j \in (b + 1)..(i - 1) :
          h[j] \notin {"commit", "rollback", "raised", "cancelled", "release"}

\* C17: only execute_safe_query opens a transaction, always a read-only one,
\* and every statement it executes runs inside that transaction; list_tables,
\* get_table_schema and execute_query open none.
C17_ReadOnlyTransactionOnlyInSafe ==
  \A c \in Calls :
    LET h == calls[c].trace
    IN IF calls[c].op = "execute_safe_query"
       THEN /\ Positions(h, "begin") = {}
            /\ \A i \in Positions(h, "fetch") : InReadOnlyTransaction(h, i)
       ELSE \A i \in 1..Len(h) : h[i] \notin TransactionEvents

\* an execute_safe_query call has run its statement inside a read-only
\* transaction and committed, and an execute_query call has run its
\* statement with no transaction
C17_Witness ==
  \E c, d \in Calls :
    /\ calls[c].op = "execute_safe_query"
    /\ calls[c].pc = "done"
    /\ calls[c].outcome.status = "ok"
    /\ Has(calls[c].trace, "begin_readonly")
    /\ Has(calls[c].trace, "fetch")
    /\ Has(calls[c].trace, "commit")
    /\ calls[d].op = "execute_query"
    /\ calls[d].pc = "done"
    /\ calls[d].outcome.status = "ok"
    /\ Has(calls[d].trace, "fetch")

\* ---------------------------------------------------------------------
\* Errors and empty results
\* ---------------------------------------------------------------------

\* the setting was read and found missing: get_pool went no further
ConfigFailure(loc) ==
  Has(loc.trace, "getenv") /\ ~Has(loc.trace, "create_pool")

\* the statement of an execute_safe_query call does not pass the gate
ValidationFailure(loc) ==
  loc.op = "execute_safe_query" /\ ExpectedVerdict(loc.query) # AllowedVerdict

\* create_pool, acquire, the transaction or the statement raised
DriverFailure(loc) == Has(loc.trace, "raised")

HitFailure(loc) ==
  ConfigFailure(loc) \/ ValidationFailure(loc) \/ DriverFailure(loc)

\* the statement of the call was executed and the engine answered with rows
\* or with none
Answered(loc, reply) ==
  \E i \in Positions(loc.trace, "fetch") :
    i < Len(loc.trace) /\ loc.trace[i + 1] = reply

\* C18: a call of any operation that hits a configuration, connection,
\* validation or engine failure ends with an error and never with a result;
\* an empty sequence is returned only when the statement was executed with
\* success and the engine returned zero rows.
C18_ErrorsNeverEmptyResults ==
  \A c \in Calls : (calls[c].pc = "done" /\ calls[c].op \in Tools) =>
    /\ HitFailure(calls[c]) =>
          /\ calls[c].outcome.status = "error"
          /\ calls[c].outcome.error \in
                {"config", "connection", "engine", "cancelled"} \cup ValidationErrors
    /\ (calls[c].outcome.status = "ok" /\ calls[c].outcome.rows = 0) =>
          /\ Answered(calls[c], "no_rows")
          /\ ~HitFailure(calls[c])

\* one call has returned an empty sequence after the engine found no rows and
\* another has ended with the error of a statement the engine refused
C18_Witness ==
  \E c, d \in Calls :
    /\ calls[c].pc = "done"
    /\ calls[c].op = "get_table_schema"
    /\ calls[c].outcome = ReturnedRows(0)
    /\ calls[d].pc = "done"
    /\ calls[d].op \in Tools
    /\ Has(calls[d].trace, "fetch")
    /\ calls[d].outcome = Raised("engine", NoText)

\* ---------------------------------------------------------------------
\* Reading the setting
\* ---------------------------------------------------------------------

\* call c reads the connection string setting in this step
ReadsSetting(c) == EntersGetPool(c) /\ Has(calls'[c].trace, "getenv")

\* the setting has been read before: by a call still on record, or by one of
\* the calls that went on to create_pool
ReadBefore ==
  createCalls > 0 \/ \E d \in Calls : Has(calls[d].trace, "getenv")

\* C19 as stated: the connection string setting is read once, at the first
\* pool acquisition, and no later acquisition reads it again.
C19_Original ==
  [][\A c \in Calls : ReadsSetting(c) => ~ReadBefore]_vars

\* C19 amended: the setting is read by exactly the get_pool calls that find
\* the pool reference unset, once each: the first acquisition, every
\* acquisition after a failed initialisation, and every acquisition that
\* overlaps an initialisation still under way; an acquisition that finds the
\* reference set never reads it.
C19_ReadWhileUnset ==
  [][\A c \in Calls : EntersGetPool(c) =>
       /\ ReadsSetting(c) <=> (connection_pool = NoPool)
       /\ Cardinality(Positions(calls'[c].trace, "getenv")) <= 1]_vars

\* the setting was read by a call that found it missing and read again by
\* the call that went on to create the pool it now holds
C19_Witness ==
  \E c, d \in Calls :
    /\ calls[d].pc = "done"
    /\ calls[d].outcome = Raised("config", NoText)
    /\ Has(calls[d].trace, "getenv")
    /\ Has(calls[c].trace, "getenv")
    /\ Has(calls[c].trace, "create_pool")
    /\ calls[c].db_pool = connection_pool
    /\ connection_pool # NoPool

\* ---------------------------------------------------------------------
\* Order of the events of one call
\* ---------------------------------------------------------------------

\* every a of history h comes before every b of h
Before(h, a, b) ==
  \A i \in Positions(h, a), j \in Positions(h, b) : i < j

\* no b in history h without an a
Needs(h, b, a) == Positions(h, b) # {} => Positions(h, a) # {}

\* the positions where a transaction ends
Ends(h) == Positions(h, "commit") \cup Positions(h, "rollback")

\* C20: within one call the pool is looked up, then a connection acquired,
\* then the statement executed, then the connection released; in
\* execute_safe_query the read-only transaction begins after the acquisition
\* and ends, by commit or rollback, before the release, and the statement
\* executes between its begin and its end.
C20_OrderWithinCall ==
  \A c \in Calls :
    LET h == calls[c].trace
    IN /\ h # <<>> => h[1] = "get_pool"
       /\ Before(h, "get_pool", "acquire") /\ Needs(h, "acquire", "get_pool")
       /\ Before(h, "acquire", "fetch") /\ Needs(h, "fetch", "acquire")
       /\ Before(h, "fetch", "release")
       /\ Before(h, "acquire", "release") /\ Needs(h, "release", "acquire")
       /\ calls[c].op = "execute_safe_query" =>
            /\ Before(h, "acquire", "begin_readonly")
            /\ Needs(h, "begin_readonly", "acquire")
            /\ Before(h, "begin_readonly", "fetch")
            /\ Needs(h, "fetch", "begin_readonly")
            /\ \A e \in Ends(h) :
                  /\ \A i \in Positions(h, "begin_readonly") : i < e
                  /\ \A i \in Positions(h, "fetch") : i < e
                  /\ \A i \in Positions(h, "release") : e < i
            /\ (Positions(h, "fetch") # {} /\ Positions(h, "release") # {})
                  => Ends(h) # {}

\* an execute_safe_query call has gone through all its events, from the pool
\* lookup to the release, and a list_tables call through its four
C20_Witness ==
  \E c, d \in Calls :
    /\ calls[c].op = "execute_safe_query"
    /\ calls[c].pc = "done"
    /\ calls[c].trace = <<"get_pool", "acquire", "begin_readonly", "fetch",
                          "rows", "commit", "release">>
    /\ calls[d].op = "list_tables"
    /\ calls[d].pc = "done"
    /\ calls[d].trace = <<"get_pool", "getenv", "create_pool", "acquire",
                          "fetch", "no_rows", "release">>

\* ---------------------------------------------------------------------
\* No retry inside a call
\* ---------------------------------------------------------------------

\* the calls of one invocation that may be attempted once only
Attempts == {"create_pool", "acquire", "fetch"}

\* what follows a failure: the transaction and the connection are given up
Cleanup == {"rollback", "release"}

\* the error a failure after event ev is reported as
ErrorAfter(ev) ==
  IF ev \in {"create_pool", "acquire"} THEN "connection" ELSE "engine"

Holders(l) == {c \in InFlight : calls[c].conn = l}

\* C22: each operation in flight holds at most one leased connection and each
\* leased connection is held by exactly one operation in flight, so that no
\* more connections are leased than operations are in flight.
C22_OneHolderPerConnection ==
  /\ \A l \in leased : Cardinality(Holders(l)) = 1
  /\ \A c \in InFlight :
       /\ calls[c].conn # NoConn => calls[c].conn \in leased
       /\ Cardinality(Positions(calls[c].trace, "acquire")) <= 1
  /\ Cardinality(leased) <= Cardinality(InFlight)

\* one call holds the only connection of the pool while the other waits for
\* a connection of the same pool
C22_Witness ==
  \E c, d \in InFlight :
    /\ c # d
    /\ calls[c].conn \in leased
    /\ calls[c].pc = "fetching"
    /\ calls[d].pc = "acquiring"
    /\ calls[d].db_pool = calls[c].db_pool
    /\ calls[d].conn = NoConn
    /\ FreeSlots(calls[d].db_pool) = {}

\* ---------------------------------------------------------------------
\* No deadlock on the pool
\* ---------------------------------------------------------------------

\* the call has ended after holding a connection and giving it back
EndedAfterLease(c) ==
  /\ calls[c].pc = "done"
  /\ Has(calls[c].trace, "release")
  /\ calls[c].conn = NoConn

\* the call has ended because acquire() itself raised or the call was
\* cancelled while it waited
EndedInAcquire(c) ==
  /\ calls[c].pc = "done"
  /\ ~Has(calls[c].trace, "release")
  /\ calls[c].outcome.error \in {"connection", "cancelled"}

\* C23: with a pool that is ready, whatever its capacity and however many
\* calls compete, under fair scheduling and a driver that always answers,
\* every call that asks for a connection gets one and terminates, unless the
\* acquisition itself is answered with an error or cancelled: no call waits
\* for a second connection while it holds one, so the calls cannot block
\* each other on an exhausted pool.
C23_NoDeadlockOnPool ==
  \A c \in Calls :
    (calls[c].pc = "acquiring") ~> (EndedAfterLease(c) \/ EndedInAcquire(c))

\* only one pool was ever created and both calls have executed their
\* statement on its only connection and ended, one of them after the other
C23_Witness ==
  /\ created = 1
  /\ createCalls = 1
  /\ leased = {}
  /\ \A c \in Calls :
       /\ EndedAfterLease(c)
       /\ Has(calls[c].trace, "fetch")
       /\ calls[c].outcome.status = "ok"

\* ---------------------------------------------------------------------
\* Empty parameters
\* ---------------------------------------------------------------------

\* what a call of the tool with this statement and no parameters sends
BareCall(q) == [stmt |-> q, args |-> <<>>]

\* C24: execute_query and execute_safe_query treat an empty parameter
\* sequence as they treat absent parameters: the driver gets the bare
\* statement and no positional arguments.
C24_EmptyParamsAsAbsent ==
  /\ \A c \in Calls :
       (calls[c].op \in QueryTools /\ calls[c].params = EmptyParams) =>
         \A i \in 1..Len(calls[c].fetched) :
           /\ Len(calls[c].fetched[i].args) = 0
           /\ calls[c].fetched[i] = BareCall(calls[c].query)
  /\ \A c, d \in Calls :
       ( /\ calls[c].op \in QueryTools /\ calls[d].op = calls[c].op
         /\ calls[c].query = calls[d].query
         /\ calls[c].params = EmptyParams /\ calls[d].params = NoParams
         /\ calls[c].fetched # <<>> /\ calls[d].fetched # <<>> )
       => Len(calls[c].fetched[1].args) = Len(calls[d].fetched[1].args)

\* an execute_safe_query call given an empty list and one given no
\* parameters have both sent the same statement to the driver
C24_Witness ==
  \E c, d \in Calls :
    /\ calls[c].op = "execute_safe_query" /\ calls[d].op = "execute_safe_query"
    /\ calls[c].params = EmptyParams /\ calls[d].params = NoParams
    /\ calls[c].query = calls[d].query
    /\ Len(calls[c].fetched) = 1 /\ Len(calls[d].fetched) = 1
    /\ calls[c].fetched[1] = calls[d].fetched[1]

====
